---- MODULE Spec2Model ----
(***************************************************************************)
(* PowerTrack (main.py): serial discovery of the ElmorLabs PMD, the        *)
(* start-up handshake (check_connection), and the per-tick pipeline        *)
(* animation_update -> get_new_sensor_values -> append -> trim -> CSV.     *)
(*                                                                         *)
(* Units.  Voltage is kept in the device's raw unit (0.01 V), current in   *)
(* the raw unit (0.1 A), power in 0.0001 W (the 4 decimals of round()).    *)
(* A timestamp is the number of the tick that produced the row: ticks are  *)
(* one second apart, so datetime.now() is strictly increasing over ticks.  *)
(* A bytes object is a sequence of integers 0..255, a port description a   *)
(* sequence of characters.                                                 *)
(***************************************************************************)
EXTENDS Integers, Sequences, FiniteSets, TLC

VARIABLES
    hostOS,     \* platform.system()
    ports,      \* serial.tools.list_ports.comports(): <<[device, description]>>
    port,       \* PMD_SETTINGS['port']
    pc,         \* position of the main thread
    op,         \* the operation the wire log belongs to: "check" or "tick"
    serOpen,    \* number of serial.Serial objects currently open
    wire,       \* wire events of the current operation, in order
    hello,      \* bytes returned by ser.read(18) in check_connection
    verified,   \* what check_connection logged: pending, noport, ok, failed
    rx,         \* bytes returned by ser.read(16) in the current tick
    fault,      \* how get_new_sensor_values ended: none, noport, open, write, read
    df,         \* the global DataFrame, a sequence of rows
    csv,        \* rows of ./data/<date>_measurements.csv
    csvExists,  \* whether the CSV file exists
    saved,      \* what save_data_to_csv logged in the last tick: none, ok, failed
    clock,      \* number of ticks started so far
    faults,     \* number of exceptions raised by the environment so far
    arrived     \* history: every row ever concatenated to df, in arrival order

vars == <<hostOS, ports, port, pc, op, serOpen, wire, hello, verified, rx, fault,
          df, csv, csvExists, saved, clock, faults, arrived>>

----------------------------------------------------------------------------
(* Bounds of the model.                                                    *)

\* MAX_LENGTH is 1000 in main.py:34.  The model keeps a small capacity with
\* the same residue modulo the three rows of a tick (1000 % 3 = 1 = 4 % 3).
MAX_LENGTH == 4
\* Enough ticks for more than MAX_LENGTH successful ticks.
MaxTicks == MAX_LENGTH + 1
\* Exceptions the environment may raise in one run (serial layer, file system).
MaxFaults == 1
\* Longest port list enumerated when detect_serial_port is checked alone.
MaxPorts == 2

----------------------------------------------------------------------------
(* Values.                                                                 *)

NoPort == "None"
NaN == -1          \* a missing numeric cell (None / NaN / NaT)
NoText == ""       \* a missing text cell

Min(a, b) == IF a <= b THEN a ELSE b
Max(a, b) == IF a >= b THEN a ELSE b

\* b[lo:hi] of Python, 0-based, clamped to the length of b
Slice(b, lo, hi) == SubSeq(b, lo + 1, Min(hi, Len(b)))

RECURSIVE FromBytesLE(_)
\* int.from_bytes(b, byteorder='little'); 0 for the empty bytes object
FromBytesLE(b) == IF b = <<>> THEN 0 ELSE b[1] + 256 * FromBytesLE(Tail(b))

RECURSIVE Zeros(_)
Zeros(n) == IF n = 0 THEN <<>> ELSE <<0>> \o Zeros(n - 1)

----------------------------------------------------------------------------
(* detect_serial_port                                                      *)

target_device_description ==
    { <<"U","S","B","-","S","E","R","I","A","L">>,
      <<"U","S","B"," ","S","e","r","i","a","l">> }

\* Python's `desc in description` on strings: a contiguous, case-sensitive match
Contains(description, desc) ==
    \E i \in 1..(Len(description) - Len(desc) + 1) :
        SubSeq(description, i, i + Len(desc) - 1) = desc

\* any(desc in port.description for desc in target_device_description)
AnyDescIn(description) ==
    \E desc \in target_device_description : Contains(description, desc)

RECURSIVE ScanPorts(_, _)
\* for port in ports: if any(...): return port.device  -- falls through to None
ScanPorts(ps, i) ==
    IF i > Len(ps) THEN NoPort
    ELSE IF AnyDescIn(ps[i].description) THEN ps[i].device
    ELSE ScanPorts(ps, i + 1)

DetectSerialPort(os, ps) ==
    IF os = "Windows" THEN ScanPorts(ps, 1)
    ELSE IF os = "Linux" THEN ScanPorts(ps, 1)
    ELSE NoPort

\* The port lists of the environment
Ch340Port == [device |-> "COM3",
              description |-> <<"U","S","B","-","S","E","R","I","A","L"," ","C","H","3","4","0">>]
FtdiPort == [device |-> "/dev/ttyUSB0",
             description |-> <<"F","T","2","3","2"," ","U","S","B"," ","S","e","r","i","a","l">>]
LowerPort == [device |-> "/dev/ttyS1",
              description |-> <<"u","s","b","-","s","e","r","i","a","l">>]
BtPort == [device |-> "COM7",
           description |-> <<"B","l","u","e","t","o","o","t","h">>]
PortInfos == {Ch340Port, FtdiPort, LowerPort, BtPort}
HostSystems == {"Windows", "Linux", "Darwin"}

RECURSIVE SeqsUpTo(_, _)
SeqsUpTo(S, n) ==
    IF n = 0 THEN { <<>> }
    ELSE LET shorter == SeqsUpTo(S, n - 1)
         IN  shorter \cup { Append(s, x) : s \in shorter, x \in S }

----------------------------------------------------------------------------
(* The serial connection                                                   *)

\* `with serial.Serial(**PMD_SETTINGS) as ser:` entered
WithEnter(n) == n + 1

WithExitLeak(n) == n
\* leaving the with block, normally or by an exception: ser.close()
WithExit(n) == n - 1

Signature == <<69,108,109,111,114,76,97,98,115,32,80,77,68,45,85,83,66>>  \* b'ElmorLabs PMD-USB'

\* what the device may answer to ser.read(18): at most 18 bytes
HelloResponses ==
    { Signature,                 \* the 17 bytes of the literal (the read times out)
      Signature \o <<0>>,        \* 18 bytes starting with the literal
      SubSeq(Signature, 1, 9),   \* a short answer
      <<>> }                     \* nothing before the timeout

HandshakeAlwaysOK(read_bytes) == TRUE
\* assert read_bytes == b'ElmorLabs PMD-USB'
HandshakeMatches(read_bytes) == read_bytes = Signature

PortClearedOnFailure(p) == NoPort
\* the except branch of check_connection only logs: PMD_SETTINGS['port'] stays
PortAfterFailedCheck(p) == p

\* `if PMD_SETTINGS['port'] is None: ... return pd.DataFrame()`
TickRequests(p) == p # NoPort

----------------------------------------------------------------------------
(* get_new_sensor_values: decoding and the new frame                       *)

ChannelIndex == 2      \* i = 2
NUM_CORES == 4         \* psutil.cpu_count() of the host
SensorName == "EPS1" \* name = 'EPS1'

\* a full 16-byte answer to command 0x03 carrying raw voltage v and current c
Payload(v, c) ==
    Zeros(8) \o <<v % 256, v \div 256, c % 256, c \div 256>> \o Zeros(4)

\* what the device may answer to ser.read(16): at most 16 bytes
SensorResponses ==
    { Payload(1200, 20),                 \* 12.00 V, 2.0 A
      SubSeq(Payload(1200, 20), 1, 9),   \* a timeout after 9 bytes
      <<>> }                             \* a timeout with no byte

\* raw sums of cpu_percent over the watched processes (percent, may exceed 100)
CpuUsages == {0, 200}

VoltageRaw(read_bytes) ==
    FromBytesLE(Slice(read_bytes, ChannelIndex * 4, ChannelIndex * 4 + 2))
CurrentRaw(read_bytes) ==
    FromBytesLE(Slice(read_bytes, ChannelIndex * 4 + 2, ChannelIndex * 4 + 4))

\* min(max(cpu_usage / num_cores, 0.0), 100.0), in whole percent
NormalizeCpuUsage(cpu_usage, num_cores) ==
    Min(Max(cpu_usage \div num_cores, 0), 100)

\* round(n / d) to the nearest integer, ties to even
RoundHalfEven(n, d) ==
    LET q == n \div d
        r == n % d
    IN  IF 2 * r < d THEN q
        ELSE IF 2 * r > d THEN q + 1
        ELSE IF q % 2 = 0 THEN q ELSE q + 1

\* round(max(voltage * current * cpu / 100, 0.0), 4), in 0.0001 W:
\* (v * 0.01) * (c * 0.1) * cpu / 100 W = v * c * cpu / 10 units
PowerValue(v, c, cpu) == RoundHalfEven(Max(v * c * cpu, 0), 10)

Row(t, u, p, v, c) ==
    [timestamp |-> t, id |-> SensorName, unit |-> u,
     Power |-> p, Voltage |-> v, Current |-> c]

\* df_new of a read that did not raise
NewFrame(t, read_bytes, cpu_usage) ==
    LET v == VoltageRaw(read_bytes)
        c == CurrentRaw(read_bytes)
        p == PowerValue(v, c, NormalizeCpuUsage(cpu_usage, NUM_CORES))
    IN  << Row(t, "P", p, NaN, NaN),
           Row(t, "U", NaN, v, NaN),
           Row(t, "I", NaN, NaN, c) >>

ErrorResultPartial == << [timestamp |-> NaN, id |-> SensorName, unit |-> "P",
                          Power |-> NaN, Voltage |-> NaN, Current |-> NaN] >>
\* `return pd.DataFrame()` of the port check and of the except branch
ErrorResult == <<>>

----------------------------------------------------------------------------
(* animation_update: cleaning, appending, trimming; save_data_to_csv       *)

RowAllNA(r) ==
    /\ r.timestamp = NaN /\ r.id = NoText /\ r.unit = NoText
    /\ r.Power = NaN /\ r.Voltage = NaN /\ r.Current = NaN

RECURSIVE CleanFrame(_)
\* .dropna(how='all'): rows whose cells are all missing are dropped.  The
\* following .dropna(axis=1, how='all') drops columns that pd.concat refills
\* with missing cells, so it leaves the rows as they are.
CleanFrame(frame) ==
    IF frame = <<>> THEN <<>>
    ELSE IF RowAllNA(Head(frame)) THEN CleanFrame(Tail(frame))
    ELSE <<Head(frame)>> \o CleanFrame(Tail(frame))

\* number of columns left by .dropna(axis=1, how='all')
CleanColumns(frame) ==
    Cardinality({ col \in {"timestamp", "id", "unit", "Power", "Voltage", "Current"} :
        \E k \in 1..Len(frame) :
            LET r == frame[k]
            IN  \/ col = "timestamp" /\ r.timestamp # NaN
                \/ col = "id" /\ r.id # NoText
                \/ col = "unit" /\ r.unit # NoText
                \/ col = "Power" /\ r.Power # NaN
                \/ col = "Voltage" /\ r.Voltage # NaN
                \/ col = "Current" /\ r.Current # NaN })

\* `if not df_new_data_clean.empty and df_new_data_clean.shape[1] > 0`
Appends(clean) == Len(clean) > 0 /\ CleanColumns(clean) > 0

\* pd.concat([df, df_new_data_clean], ignore_index=True), or df as it is
Concat(frame, clean) == IF Appends(clean) THEN frame \o clean ELSE frame

TrimHead(frame) ==
    IF Len(frame) > MAX_LENGTH THEN SubSeq(frame, 1, MAX_LENGTH) ELSE frame
TrimOneLess(frame) ==
    IF Len(frame) > MAX_LENGTH
    THEN SubSeq(frame, Len(frame) - MAX_LENGTH + 2, Len(frame)) ELSE frame
\* `if df.shape[0] > MAX_LENGTH: df = df.iloc[-MAX_LENGTH:]`
Trim(frame) ==
    IF Len(frame) > MAX_LENGTH
    THEN SubSeq(frame, Len(frame) - MAX_LENGTH + 1, Len(frame)) ELSE frame

CsvRow(r) == [timestamp |-> r.timestamp, id |-> r.id, unit |-> r.unit, Power |-> r.Power]

RECURSIVE PowerFrameUnfiltered(_)
PowerFrameUnfiltered(frame) ==
    IF frame = <<>> THEN <<>>
    ELSE <<CsvRow(Head(frame))>> \o PowerFrameUnfiltered(Tail(frame))

RECURSIVE PowerFrameRows(_)
PowerFrameRows(frame) ==
    IF frame = <<>> THEN <<>>
    ELSE IF Head(frame).Power = NaN THEN PowerFrameRows(Tail(frame))
    ELSE <<CsvRow(Head(frame))>> \o PowerFrameRows(Tail(frame))

\* df[['timestamp', 'id', 'unit', 'Power']].dropna(subset=['Power'])
PowerFrame(frame) == PowerFrameRows(frame)

----------------------------------------------------------------------------
(* Initial states                                                          *)

InitState ==
    /\ port = NoPort
    /\ pc = "start"
    /\ op = "check"
    /\ serOpen = 0
    /\ wire = <<>>
    /\ hello = <<>>
    /\ verified = "pending"
    /\ rx = <<>>
    /\ fault = "none"
    /\ df = <<>>
    /\ csv = <<>>
    /\ csvExists = FALSE
    /\ saved = "none"
    /\ clock = 0
    /\ faults = 0
    /\ arrived = <<>>

\* A Linux host and a host that is neither Windows nor Linux, with the PMD's
\* USB-serial bridge enumerated after another port.
Init ==
    /\ hostOS \in {"Linux", "Darwin"}
    /\ ports = <<BtPort, Ch340Port>>
    /\ InitState

----------------------------------------------------------------------------
(* check_connection                                                        *)

\* PMD_SETTINGS['port'] = detect_serial_port(); return when it is None
CheckDetect ==
    /\ pc = "start"
    /\ port' = DetectSerialPort(hostOS, ports)
    /\ IF port' = NoPort
       THEN pc' = "idle" /\ verified' = "noport"
       ELSE pc' = "cc_open" /\ verified' = verified
    /\ UNCHANGED <<hostOS, ports, op, serOpen, wire, hello, rx, fault, df, csv,
                   csvExists, saved, clock, faults, arrived>>

\* except (serial.SerialException, AssertionError): log, return
CheckFailed ==
    /\ verified' = "failed"
    /\ port' = PortAfterFailedCheck(port)
    /\ pc' = "idle"

\* an exception inside the with block: __exit__ closes, then the except branch
CheckAbort ==
    /\ serOpen' = WithExit(serOpen)
    /\ wire' = Append(wire, "close")
    /\ CheckFailed

Raises ==
    /\ faults < MaxFaults
    /\ faults' = faults + 1

CheckOpen ==
    /\ pc = "cc_open"
    /\ \/ /\ serOpen' = WithEnter(serOpen)
          /\ wire' = Append(wire, "open")
          /\ pc' = "cc_w00"
          /\ UNCHANGED <<port, verified, faults>>
       \/ /\ Raises
          /\ CheckFailed
          /\ UNCHANGED <<serOpen, wire>>
    /\ UNCHANGED <<hostOS, ports, op, hello, rx, fault, df, csv, csvExists,
                   saved, clock, arrived>>

\* ser.write(b'\x00'); ser.flush()
CheckWrite00 ==
    /\ pc = "cc_w00"
    /\ \/ /\ wire' = Append(wire, "w00")
          /\ pc' = "cc_r18"
          /\ UNCHANGED <<port, verified, faults, serOpen>>
       \/ /\ Raises
          /\ CheckAbort
    /\ UNCHANGED <<hostOS, ports, op, hello, rx, fault, df, csv, csvExists,
                   saved, clock, arrived>>

\* read_bytes = ser.read(18); assert read_bytes == b'ElmorLabs PMD-USB'
CheckRead18 ==
    /\ pc = "cc_r18"
    /\ \/ \E read_bytes \in HelloResponses :
            /\ hello' = read_bytes
            /\ IF HandshakeMatches(read_bytes)
               THEN /\ wire' = Append(wire, "r18")
                    /\ pc' = "cc_w02"
                    /\ UNCHANGED <<port, verified, serOpen>>
               ELSE /\ serOpen' = WithExit(serOpen)
                    /\ wire' = wire \o <<"r18", "close">>
                    /\ CheckFailed
            /\ UNCHANGED faults
       \/ /\ Raises
          /\ CheckAbort
          /\ UNCHANGED hello
    /\ UNCHANGED <<hostOS, ports, op, rx, fault, df, csv, csvExists, saved,
                   clock, arrived>>

\* ser.write(b'\x02'); ser.flush()
CheckWrite02 ==
    /\ pc = "cc_w02"
    /\ \/ /\ wire' = Append(wire, "w02")
          /\ pc' = "cc_r100"
          /\ UNCHANGED <<port, verified, faults, serOpen>>
       \/ /\ Raises
          /\ CheckAbort
    /\ UNCHANGED <<hostOS, ports, op, hello, rx, fault, df, csv, csvExists,
                   saved, clock, arrived>>

\* ser.read(100); the with block ends; "established successfully" is logged
CheckRead100 ==
    /\ pc = "cc_r100"
    /\ \/ /\ serOpen' = WithExit(serOpen)
          /\ wire' = wire \o <<"r100", "close">>
          /\ verified' = "ok"
          /\ pc' = "idle"
          /\ UNCHANGED <<port, faults>>
       \/ /\ Raises
          /\ CheckAbort
    /\ UNCHANGED <<hostOS, ports, op, hello, rx, fault, df, csv, csvExists,
                   saved, clock, arrived>>

----------------------------------------------------------------------------
(* animation_update and get_new_sensor_values                              *)

\* the timer fires; get_new_sensor_values tests PMD_SETTINGS['port']
TickStart ==
    /\ pc = "idle"
    /\ clock < MaxTicks
    /\ clock' = clock + 1
    /\ op' = "tick"
    /\ wire' = <<>>
    /\ rx' = <<>>
    /\ IF TickRequests(port)
       THEN pc' = "t_open" /\ fault' = "none"
       ELSE pc' = "t_finish" /\ fault' = "noport"
    /\ UNCHANGED <<hostOS, ports, port, serOpen, hello, verified, df, csv,
                   csvExists, saved, faults, arrived>>

TickOpen ==
    /\ pc = "t_open"
    /\ \/ /\ serOpen' = WithEnter(serOpen)
          /\ wire' = Append(wire, "open")
          /\ pc' = "t_w03"
          /\ UNCHANGED <<fault, faults>>
       \/ /\ Raises
          /\ fault' = "open"
          /\ pc' = "t_finish"
          /\ UNCHANGED <<serOpen, wire>>
    /\ UNCHANGED <<hostOS, ports, port, op, hello, verified, rx, df, csv,
                   csvExists, saved, clock, arrived>>

\* ser.write(b'\x03'); ser.flush()
TickWrite03 ==
    /\ pc = "t_w03"
    /\ \/ /\ wire' = Append(wire, "w03")
          /\ pc' = "t_r16"
          /\ UNCHANGED <<fault, faults, serOpen>>
       \/ /\ Raises
          /\ serOpen' = WithExit(serOpen)
          /\ wire' = Append(wire, "close")
          /\ fault' = "write"
          /\ pc' = "t_finish"
    /\ UNCHANGED <<hostOS, ports, port, op, hello, verified, rx, df, csv,
                   csvExists, saved, clock, arrived>>

\* read_bytes = ser.read(16); the with block ends
TickRead16 ==
    /\ pc = "t_r16"
    /\ \/ \E read_bytes \in SensorResponses :
            /\ rx' = read_bytes
            /\ wire' = wire \o <<"r16", "close">>
            /\ UNCHANGED <<fault, faults>>
       \/ /\ Raises
          /\ wire' = Append(wire, "close")
          /\ fault' = "read"
          /\ UNCHANGED rx
    /\ serOpen' = WithExit(serOpen)
    /\ pc' = "t_finish"
    /\ UNCHANGED <<hostOS, ports, port, op, hello, verified, df, csv,
                   csvExists, saved, clock, arrived>>

SAVE_TO_CSV == TRUE

\* save_data_to_csv(df): the file is rewritten, or an exception is logged
SaveDataToCsv(frame) ==
    \/ /\ csv' = PowerFrame(frame)
       /\ csvExists' = TRUE
       /\ saved' = "ok"
       /\ UNCHANGED faults
    \/ /\ Raises                       \* os.makedirs or the open raised
       /\ saved' = "failed"
       /\ UNCHANGED <<csv, csvExists>>
    \/ /\ Raises                       \* the write raised after k rows
       /\ \E k \in 0..(Len(PowerFrame(frame)) - 1) :
            csv' = SubSeq(PowerFrame(frame), 1, k)
       /\ csvExists' = TRUE
       /\ saved' = "failed"

\* the rest of the tick: the frame of get_new_sensor_values is cleaned,
\* concatenated, the store trimmed and the CSV file rewritten
TickFinish ==
    /\ pc = "t_finish"
    /\ \E cpu_usage \in (IF fault = "none" THEN CpuUsages ELSE {0}) :
         LET df_new_data == IF fault = "none"
                            THEN NewFrame(clock, rx, cpu_usage)
                            ELSE ErrorResult
             clean == CleanFrame(df_new_data)
             trimmed == Trim(Concat(df, clean))
         IN  /\ df' = trimmed
             /\ arrived' = Concat(arrived, clean)
             /\ IF SAVE_TO_CSV
                THEN SaveDataToCsv(trimmed)
                ELSE UNCHANGED <<csv, csvExists, saved, faults>>
    /\ pc' = "idle"
    /\ UNCHANGED <<hostOS, ports, port, op, serOpen, wire, hello, verified, rx,
                   fault, clock>>

Next ==
    \/ CheckDetect
    \/ CheckOpen
    \/ CheckWrite00
    \/ CheckRead18
    \/ CheckWrite02
    \/ CheckRead100
    \/ TickStart
    \/ TickOpen
    \/ TickWrite03
    \/ TickRead16
    \/ TickFinish

Spec == Init /\ [][Next]_vars

----------------------------------------------------------------------------
(* detect_serial_port alone, over every host system and short port list    *)

InitDetect ==
    /\ hostOS \in HostSystems
    /\ ports \in SeqsUpTo(PortInfos, MaxPorts)
    /\ InitState

Detect ==
    /\ pc = "start"
    /\ port' = DetectSerialPort(hostOS, ports)
    /\ pc' = "detected"
    /\ UNCHANGED <<hostOS, ports, op, serOpen, wire, hello, verified, rx, fault,
                   df, csv, csvExists, saved, clock, faults, arrived>>

NextDetect == Detect

SpecDetect == InitDetect /\ [][NextDetect]_vars

----------------------------------------------------------------------------
(* Vocabulary of the properties                                            *)

Range(s) == { s[k] : k \in 1..Len(s) }

IsPrefix(s, t) == Len(s) <= Len(t) /\ SubSeq(t, 1, Len(s)) = s

\* the last n elements of s, in order (all of s when it is shorter)
LastRows(s, n) ==
    LET m == Min(n, Len(s)) IN [k \in 1..m |-> s[Len(s) - m + k]]

SerialFaults == {"open", "write", "read"}
Units == {"P", "U", "I"}

RECURSIVE TickTimes(_)
\* the timestamps of the ticks that appended rows, oldest first
TickTimes(s) ==
    IF s = <<>> THEN <<>>
    ELSE LET rest == TickTimes(Tail(s))
         IN  IF rest # <<>> /\ Head(rest) = Head(s).timestamp
             THEN rest
             ELSE <<Head(s).timestamp>> \o rest

\* number of ticks that appended samples so far
NumOkTicks == Len(TickTimes(arrived))

\* every row a tick appended, in arrival order
RowsOfTick(t) == SelectSeq(arrived, LAMBDA r : r.timestamp = t)

RECURSIVE RowsOfTicks(_, _)
\* all rows of the ticks times[i], times[i+1], ...
RowsOfTicks(times, i) ==
    IF i > Len(times) THEN <<>>
    ELSE RowsOfTick(times[i]) \o RowsOfTicks(times, i + 1)

\* the rows with unit P, as the CSV columns
UnitPRows(frame) ==
    LET rows == SelectSeq(frame, LAMBDA r : r.unit = "P")
    IN  [k \in 1..Len(rows) |->
            [timestamp |-> rows[k].timestamp, id |-> rows[k].id,
             unit |-> rows[k].unit, Power |-> rows[k].Power]]

\* the first enumerated port whose description contains a candidate
FirstMatch(ps) ==
    LET hits == { k \in 1..Len(ps) : AnyDescIn(ps[k].description) }
    IN  IF hits = {} THEN NoPort
        ELSE ps[CHOOSE k \in hits : \A j \in hits : k <= j].device

----------------------------------------------------------------------------
(* C1: a tick whose serial open, write or read raised appends no sample:  *)
(* the store after the tick has the rows it had before the tick.           *)
C1_FailedReadAppendsNothing ==
    [][(pc = "t_finish" /\ fault \in SerialFaults)
          => (df' = df /\ arrived' = arrived)]_vars

C1_Witness ==
    /\ pc = "idle" /\ op = "tick"
    /\ fault \in SerialFaults
    /\ Len(df) > 0

(* C2: the store never holds more than MAX_LENGTH rows, and it is always  *)
(* the most recent MAX_LENGTH rows that arrived, in arrival order (all of  *)
(* them while fewer have arrived), whatever ticks succeeded or failed.     *)
C2_StoreIsLastMaxLength ==
    /\ Len(df) <= MAX_LENGTH
    /\ df = LastRows(arrived, MAX_LENGTH)

C2_Witness ==
    /\ pc = "idle"
    /\ Len(arrived) > MAX_LENGTH
    /\ Len(df) = MAX_LENGTH
    /\ fault \in SerialFaults

(* C3, as stated: after more than MAX_LENGTH successful ticks the store   *)
(* holds all samples of the MAX_LENGTH most recent ticks, oldest first.    *)
C3_RetainsMaxLengthTicks ==
    (pc = "idle" /\ NumOkTicks > MAX_LENGTH)
        => df = RowsOfTicks(TickTimes(arrived), NumOkTicks - MAX_LENGTH + 1)

(* C3, amended: after more than MAX_LENGTH successful ticks the store     *)
(* holds exactly the MAX_LENGTH most recent sample rows: every sample of   *)
(* each of the MAX_LENGTH \div 3 most recent ticks, before them the last   *)
(* MAX_LENGTH % 3 samples of the tick preceding those, nothing older.      *)
C3_RetainsMaxLengthRows ==
    (pc = "idle" /\ NumOkTicks > MAX_LENGTH)
        => LET times == TickTimes(arrived)
               whole == MAX_LENGTH \div 3
               part == MAX_LENGTH % 3
               torn == RowsOfTick(times[NumOkTicks - whole])
           IN  /\ Len(df) = MAX_LENGTH
               /\ df = SubSeq(torn, Len(torn) - part + 1, Len(torn))
                        \o RowsOfTicks(times, NumOkTicks - whole + 1)

C3_Witness ==
    /\ pc = "idle"
    /\ NumOkTicks > MAX_LENGTH

(* C4: a tick whose answer to 0x03 is shorter than 16 bytes appends no    *)
(* sample: the store holds no row stamped by that tick.                    *)
C4_ShortReadSkipsTick ==
    (pc = "idle" /\ op = "tick" /\ fault = "none" /\ Len(rx) < 16)
        => \A k \in 1..Len(df) : df[k].timestamp # clock

(* C5: the wire events of check_connection are a prefix of open, write    *)
(* 0x00, read 18, write 0x02, read 100, closed by a close; 0x02 is written *)
(* only after the 18-byte read returned the signature, and a mismatch ends *)
(* the verification as failed without 0x02.                                *)
C5_HandshakeOrder ==
    op = "check" =>
        /\ \/ IsPrefix(wire, <<"open", "w00", "r18", "w02", "r100", "close">>)
           \/ \E n \in 1..4 :
                wire = SubSeq(<<"open", "w00", "r18", "w02">>, 1, n) \o <<"close">>
        /\ "w02" \in Range(wire) => hello = Signature
        /\ (pc = "idle" /\ "r18" \in Range(wire) /\ hello # Signature)
              => (verified = "failed" /\ "w02" \notin Range(wire))
        /\ (pc = "idle" /\ verified = "ok")
              => wire = <<"open", "w00", "r18", "w02", "r100", "close">>

C5_Witness ==
    /\ op = "check" /\ pc = "idle"
    /\ hello = Signature \o <<0>>
    /\ wire = <<"open", "w00", "r18", "close">>

(* C6: at most one serial connection is open at any time, and none is     *)
(* open before check_connection, at a tick boundary, or once               *)
(* get_new_sensor_values has returned.                                     *)
C6_NoConnectionAcrossTicks ==
    /\ serOpen \in {0, 1}
    /\ pc \in {"start", "idle", "t_finish", "cc_open", "t_open"} => serOpen = 0

C6_Witness ==
    /\ pc = "idle"
    /\ verified = "failed" /\ hello # Signature /\ hello # <<>>
    /\ fault = "read"

C8_FirstMatchOnEveryHost ==
    pc = "detected" => port = FirstMatch(ports)

(* C9, as stated: a finished tick has sent command 0x03 if and only if    *)
(* PMD_SETTINGS['port'] was set.                                           *)
C9_SendsIffPortSet ==
    (op = "tick" /\ pc = "idle")
        => (("w03" \in Range(wire)) <=> (port # NoPort))

(* C9, amended: only PMD_SETTINGS['port'] gates a tick's request, never   *)
(* the handshake result.  A failed check_connection leaves the detected    *)
(* port set; a tick skips the request exactly when the port is unset, and  *)
(* otherwise sends 0x03 unless the serial open or write raises first.      *)
C9_PortAloneGatesSampling ==
    /\ verified = "failed" => port # NoPort
    /\ op = "tick" => ((fault = "noport") <=> (port = NoPort))
    /\ "w03" \in Range(wire) => port # NoPort
    /\ (op = "tick" /\ fault = "none" /\ pc \in {"t_r16", "t_finish", "idle"})
          => "w03" \in Range(wire)

C9_Witness ==
    /\ pc = "idle"
    /\ verified = "failed"
    /\ "w03" \in Range(wire)
    /\ \E k \in 1..Len(df) : df[k].timestamp = clock

(* C10: at every tick boundary each timestamp in the store has all three  *)
(* of its rows, P, U and I.                                                *)
C10_WholeTriples ==
    pc = "idle" =>
        \A k \in 1..Len(df) : \A u \in Units :
            \E j \in 1..Len(df) :
                df[j].timestamp = df[k].timestamp /\ df[j].unit = u

====
